---- MODULE Spec2Model ----
(***************************************************************************)
(* Model of azurelogs2oci: the batching sender (OciStreamSender), the      *)
(* accumulator (HubBuffer) with its two sequential controllers (the Event  *)
(* Hub trigger main and the timer function's process_eventhub), and the    *)
(* concurrent drain tool (EventHubDrainer: per-partition on_event          *)
(* callbacks, the inactivity watchdog thread and drain()).                 *)
(*                                                                         *)
(* A payload is abstracted to [id, n]: id is the position of its event in  *)
(* the delivery order, n the length in bytes of its UTF-8 encoding (bodies *)
(* are neither empty nor blank).  The                                      *)
(* sink (StreamClient.put_messages) is the environment: each call either   *)
(* answers with one result per entry ("ok": none in error, "err": the      *)
(* first entry in error) or raises ("raise").                              *)
(*                                                                         *)
(* Time is discrete (seconds).  In drain mode program steps take no time,   *)
(* except a callback's sink call: Tick is enabled only when every thread   *)
(* is asleep, blocked, or in a sink call of a callback.                    *)
(***************************************************************************)
EXTENDS Integers, Sequences, FiniteSets, TLC

\* ---------------------------------------------------------------- bounds
MaxEvents == 3
MaxDrainEvents == 2
MaxEventTime == 2
MaxRaises == 1

\* ------------------------------------------------------ program constants
PerItemOverhead == 50
\* mutant: the watchdog sleeps twice as long
PollIntervalSlow == 2 * 2
PollInterval == 2

\* ---------------------------------------------------------------- inputs
Modes == {"trigger", "timer", "drain"}
PayloadLens == {1, 4}
BlankLen == 0
MaxCountChoices == {1, 2}
MaxBytesChoices == {57, 110, 1000}
TimeoutChoices == {3}
Partitions == {1, 2}
Outcomes == {"ok", "err", "raise"}
ConfigChoices == {"ok", "noSink", "noSource"}
MainThread == 0
NoThread == -1
NoEvent == [id |-> 0, n |-> 0, ok |-> TRUE]
MaxTimeout == CHOOSE t \in TimeoutChoices : \A u \in TimeoutChoices : u <= t
MaxTime == MaxEventTime + MaxTimeout + PollInterval + 2

VARIABLES
    mode,           \* which controller runs: trigger main, process_eventhub, drain
    config,         \* which required setting, if any, is missing
    concurrent,     \* the source runs the callbacks of the partitions concurrently
    maxCount,       \* max_batch_count / max_count
    maxBytes,       \* max_batch_bytes / max_bytes
    timeout,        \* inactivity_timeout
    ociEnabled,     \* EventHubDrainer.oci_sender is not None
    buf,            \* HubBuffer.buf / EventHubDrainer._buffer
    sent,           \* HubBuffer.sent / messages_sent
    failed,         \* HubBuffer.failed / messages_failed
    batches,        \* HubBuffer.batches / batches
    processed,      \* processed_count / messages_processed
    errors,         \* error_count of the trigger main
    ckpt,           \* ids of the events update_checkpoint was called for
    pcMain,         \* position of the controller
    summary,        \* the final summary of counters has been reported
    now,            \* time.time()
    lastEventTs,    \* _last_event_ts
    stopFlag,       \* _stop_flag
    closed,         \* client.close() has been called
    wdWake,         \* when the watchdog's time.sleep(2) ends
    lock,           \* holder of _lock (NoThread: free)
    pc,             \* position of each partition's on_event callback
    cur,            \* the event each callback is processing
    tmp,            \* messages_processed as loaded by `+= 1`
    toSend,         \* to_send of the flush in progress
    recvErr,        \* client.receive ended by raising
    \* history (not read by the program)
    sinkLog,        \* every put_messages call: [batch, res]
    added,          \* every payload appended to the buffer, in order
    delivered,      \* number of events handed to the controller
    forced,         \* number of _flush_if_needed(force=True) calls
    addRaised,      \* a sink call raised while an event was being added
    lastRecv,       \* time of the most recent received event (-1: none)
    tripTime,       \* time of the watchdog trip (-1: none)
    polls,          \* number of rounds of the watchdog loop
    signals,        \* number of times the watchdog set the flag and closed
    bad,            \* ids of the events whose decoding raised
    blank,          \* ids of the events skipped for their blank body
    endTime         \* time at which the controller ended (-1: it has not)

vars == <<mode, config, concurrent, maxCount, maxBytes, timeout, ociEnabled, buf, sent, failed,
          batches, processed, errors, ckpt, pcMain, summary, now, lastEventTs,
          stopFlag, closed, wdWake, lock, pc, cur, tmp, toSend, recvErr,
          sinkLog, added, delivered, forced, addRaised, lastRecv, tripTime,
          polls, signals, bad, blank, endTime>>

cfgVars == <<mode, config, concurrent, maxCount, maxBytes, timeout>>
drainVars == <<now, lastEventTs, stopFlag, closed, wdWake, lock, pc, cur, tmp,
               toSend, recvErr, lastRecv, tripTime, polls, signals>>

\* ------------------------------------------------------------ SizeEstimator
B64Len(n) == 4 * ((n + 2) \div 3)

RECURSIVE SumB64(_)
SumB64(messages) ==
    IF messages = <<>> THEN 0
    ELSE B64Len(Head(messages).n) + SumB64(Tail(messages))

estimate_batch_bytes(messages) ==
    SumB64(messages) + Len(messages) * PerItemOverhead

\* ------------------------------------------------------------ SinkForwarder
\* resp.data.entries of a put_messages call that does not raise: one entry
\* per message, TRUE for an entry that carries an error ("err": the first)
Entries(payloads, o) == [i \in 1..Len(payloads) |-> (o = "err" /\ i = 1)]

\* the number of entries with (flag = TRUE) or without an error
CountEntries(entries, flag) ==
    Cardinality({i \in 1..Len(entries) : entries[i] = flag})

\* send_batch's loop over the entries: `else: sent += 1`
SentOf(payloads, o) == CountEntries(Entries(payloads, o), FALSE)

\* mutant: an entry answered with an error is not counted
FailedOfNone(payloads, o) == 0

\* send_batch's loop over the entries: `if error: failed += 1`
FailedOf(payloads, o) == CountEntries(Entries(payloads, o), TRUE)

\* mutant: the count test is off by one
ExceedsOffByOne(candidate, max_bytes, max_count) ==
    \/ Len(candidate) > max_count + 1
    \/ estimate_batch_bytes(candidate) > max_bytes

\* mutant: only the count splits the sequence
ExceedsCountOnly(candidate, max_bytes, max_count) ==
    Len(candidate) > max_count

\* mutant: the sequence is never split
ExceedsNever(candidate, max_bytes, max_count) == FALSE

\* mutant: the batch is closed as soon as the count limit is reached
ExceedsEarly(candidate, max_bytes, max_count) ==
    \/ Len(candidate) >= max_count
    \/ estimate_batch_bytes(candidate) > max_bytes

\* send_with_limits: the test that closes the batch in progress
Exceeds(candidate, max_bytes, max_count) ==
    \/ Len(candidate) > max_count
    \/ estimate_batch_bytes(candidate) > max_bytes

\* s, f = self.send_batch(batch); total_sent += s; total_failed += f; batches += 1
\* st = [batch, s, f, b, calls, raised]; the k-th sink call of this flush is
\* answered by oracle[k].  send_batch([]) returns (0, 0) without a sink call.
Dispatch(st, oracle) ==
    IF st.batch = <<>> THEN [st EXCEPT !.b = @ + 1]
    ELSE LET o == oracle[Len(st.calls) + 1]
             call == [batch |-> st.batch, res |-> o]
         IN  IF o = "raise"
             THEN [st EXCEPT !.calls = Append(@, call), !.raised = TRUE]
             ELSE [st EXCEPT !.calls = Append(@, call),
                             !.s = @ + SentOf(st.batch, o),
                             !.f = @ + FailedOf(st.batch, o),
                             !.b = @ + 1]

\* mutant: the batch still in progress after the loop is not sent
FinalDispatchForgotten(st, oracle) == st

FinalDispatch(st, oracle) ==
    IF st.batch # <<>> THEN Dispatch(st, oracle) ELSE st

RECURSIVE PackFrom(_, _, _, _, _)
PackFrom(payloads, st, max_bytes, max_count, oracle) ==
    IF st.raised THEN st
    ELSE IF payloads = <<>> THEN FinalDispatch(st, oracle)
    ELSE LET p == Head(payloads)
             candidate == Append(st.batch, p)
         IN  IF Exceeds(candidate, max_bytes, max_count)
             THEN PackFrom(Tail(payloads),
                           [Dispatch(st, oracle) EXCEPT !.batch = <<p>>],
                           max_bytes, max_count, oracle)
             ELSE PackFrom(Tail(payloads), [st EXCEPT !.batch = candidate],
                           max_bytes, max_count, oracle)

send_with_limits(payloads, max_bytes, max_count, oracle) ==
    PackFrom(payloads,
             [batch |-> <<>>, s |-> 0, f |-> 0, b |-> 0, calls |-> <<>>,
              raised |-> FALSE],
             max_bytes, max_count, oracle)

\* The sink's answers to one flush: one per put_messages call the flush makes
\* when none raises (the packing does not depend on the answers).
NumCalls(payloads, max_bytes, max_count) ==
    Len(send_with_limits(payloads, max_bytes, max_count,
                         [k \in 1..Len(payloads) |-> "ok"]).calls)

\* put_messages raises at most MaxRaises times in a run
RaiseCount == Cardinality({i \in 1..Len(sinkLog) : sinkLog[i].res = "raise"})

Oracles(payloads) ==
    [1..NumCalls(payloads, maxBytes, maxCount) ->
        IF RaiseCount < MaxRaises THEN Outcomes ELSE Outcomes \ {"raise"}]

\* ---------------------------------------------------------- BatchAccumulator
\* mutant: every add flushes
NeedsFlushEager(b, force) == TRUE

\* mutant: the thresholds must be exceeded, not reached
NeedsFlushStrict(b, force) ==
    \/ force
    \/ Len(b) > maxCount
    \/ estimate_batch_bytes(b) > maxBytes

\* HubBuffer._flush_if_needed: the threshold test
NeedsFlush(b, force) ==
    \/ force
    \/ Len(b) >= maxCount
    \/ estimate_batch_bytes(b) >= maxBytes

Payload(ev) == [id |-> ev.id, n |-> ev.n]

\* mutant: the position of the event is not checkpointed
CheckpointSkipped(c, ev) == c

\* partition_context.update_checkpoint(event): the positions it was called for
update_checkpoint(c, ev) == c \cup {ev.id}

\* ----------------------------------------------------------------- Init
Init ==
    /\ mode \in Modes
    /\ config \in (IF mode = "trigger" THEN {"ok", "noSink"} ELSE ConfigChoices)
    /\ concurrent \in (IF mode = "timer" /\ config = "ok" THEN BOOLEAN
                       ELSE {FALSE})
    /\ maxCount \in MaxCountChoices
    /\ maxBytes \in MaxBytesChoices
    /\ timeout \in TimeoutChoices
    /\ ociEnabled \in (IF mode = "drain" /\ config = "ok" THEN BOOLEAN
                       ELSE {TRUE})
    /\ buf = <<>>
    /\ sent = 0 /\ failed = 0 /\ batches = 0 /\ processed = 0 /\ errors = 0
    /\ ckpt = {}
    /\ pcMain = "start"
    /\ summary = FALSE
    /\ now = 0
    /\ lastEventTs = 0
    /\ stopFlag = FALSE
    /\ closed = FALSE
    /\ wdWake = PollInterval
    /\ lock = NoThread
    /\ pc = [p \in Partitions |-> "idle"]
    /\ cur = [p \in Partitions |-> NoEvent]
    /\ tmp = [p \in Partitions |-> 0]
    /\ toSend = <<>>
    /\ recvErr = FALSE
    /\ sinkLog = <<>>
    /\ added = <<>>
    /\ delivered = 0
    /\ forced = 0
    /\ addRaised = FALSE
    /\ lastRecv = -1
    /\ tripTime = -1
    /\ polls = 0
    /\ signals = 0
    /\ bad = {}
    /\ blank = {}
    /\ endTime = -1

\* the next event of the source: a body that decodes, of one of the
\* lengths, or one whose decoding raises; the trigger main is also handed
\* events with a blank body
Events == {[id |-> delivered + 1, n |-> n, ok |-> TRUE] : n \in PayloadLens}
            \cup {[id |-> delivered + 1, n |-> 1, ok |-> FALSE]}
            \cup (IF mode = "trigger"
                  THEN {[id |-> delivered + 1, n |-> BlankLen, ok |-> TRUE]}
                  ELSE {})

\* trigger main, line 258: `not body or body.isspace()`
IsBlank(ev) == ev.n = BlankLen

\* ------------------------------------------------------------- startup
\* mutant: the settings are not validated
StartupUnchecked ==
    /\ pcMain = "start"
    /\ pcMain' = IF mode = "drain" THEN "receive" ELSE "loop"
    /\ UNCHANGED <<cfgVars, ociEnabled, endTime, buf, sent, failed, batches,
                   processed, errors, ckpt, summary, drainVars, sinkLog,
                   added, delivered, bad, blank, forced, addRaised>>

\* The handlers before the first event.
\* trigger main, lines 219-246: validate_env raises when the endpoint or the
\* stream id is missing, and the handler logs and re-raises (lines 302-304).
\* timer main, lines 253-262 with validate_env, lines 229-242: the
\* connection string, the endpoint and the stream id are required, and the
\* exception is logged by main (lines 283-284), which returns.
\* drain command, lines 303-345: without the connection string or the hub
\* name main returns 1; when the sink is wanted and OciStreamSender raises
\* for a missing endpoint or stream id (lines 52-56) the command goes on
\* without a sink.
Startup ==
    /\ pcMain = "start"
    /\ IF config = "noSource" \/ (config = "noSink" /\ mode # "drain")
       THEN /\ pcMain' = "failed"
            /\ endTime' = now
            /\ UNCHANGED ociEnabled
       ELSE /\ pcMain' = IF mode = "drain" THEN "receive" ELSE "loop"
            /\ ociEnabled' = (ociEnabled /\ config = "ok")
            /\ UNCHANGED endTime
    /\ UNCHANGED <<cfgVars, buf, sent, failed, batches, processed, errors,
                   ckpt, summary, drainVars, sinkLog, added, delivered, bad, blank,
                   forced, addRaised>>

\* the exit code of the drain command, lines 303-347 (-1: still running):
\* 0 when drain() has returned, 1 when main returned 1 or drain() raised
ExitCode ==
    IF pcMain = "done" THEN 0
    ELSE IF pcMain \in {"failed", "raised"} THEN 1
    ELSE -1

\* ------------------------------------------- HubBuffer and its controllers
\* mutant: receive returns without waiting for the running callbacks
AllIdleIgnored == TRUE

\* client.receive runs the callbacks: it ends only when none is running
AllIdle == \A p \in Partitions : pc[p] = "idle"

\* mutant: the event that raised is not counted
CountErrorForgotten(m, e) == e

\* trigger main, lines 272-277: error_count += 1 in both handlers of the
\* loop; process_eventhub.on_event only logs
CountError(m, e) == IF m = "trigger" THEN e + 1 ELSE e

\* trigger main, line 286: the failed count of the summary
total_failed == failed + errors

\* HubBuffer.add(payload) followed by the caller's bookkeeping.
\* trigger main: lines 249-277; process_eventhub.on_event: lines 173-191.
HubEvent ==
    /\ mode \in {"trigger", "timer"}
    /\ ~concurrent
    /\ pcMain = "loop"
    /\ delivered < MaxEvents
    /\ \E ev \in Events :
        /\ delivered' = delivered + 1
        /\ IF ~ev.ok
           THEN \* the decode raises: counted (trigger) or swallowed (timer)
                /\ errors' = CountError(mode, errors)
                /\ UNCHANGED <<buf, sent, failed, batches, processed, sinkLog,
                               added, addRaised>>
           ELSE IF mode = "trigger" /\ IsBlank(ev)
           THEN \* lines 258-260: the blank body is skipped (continue)
                UNCHANGED <<buf, sent, failed, batches, processed, errors,
                            sinkLog, added, addRaised>>
           ELSE LET b1 == Append(buf, Payload(ev)) IN
                /\ added' = Append(added, Payload(ev))
                /\ IF ~NeedsFlush(b1, FALSE)
                   THEN /\ buf' = b1
                        /\ processed' = IF mode = "trigger" THEN processed + 1
                                        ELSE processed
                        /\ UNCHANGED <<sent, failed, batches, sinkLog, errors,
                                       addRaised>>
                   ELSE \E oracle \in Oracles(b1) :
                        LET r == send_with_limits(b1, maxBytes, maxCount, oracle)
                        IN  /\ sinkLog' = sinkLog \o r.calls
                            /\ IF r.raised
                               THEN \* self.buf.clear() is not reached
                                    /\ buf' = b1
                                    /\ addRaised' = TRUE
                                    /\ errors' = CountError(mode, errors)
                                    /\ UNCHANGED <<sent, failed, batches,
                                                   processed>>
                               ELSE /\ buf' = <<>>
                                    /\ sent' = sent + r.s
                                    /\ failed' = failed + r.f
                                    /\ batches' = batches + r.b
                                    /\ processed' = IF mode = "trigger"
                                                    THEN processed + 1
                                                    ELSE processed
                                    /\ UNCHANGED <<errors, addRaised>>
        /\ ckpt' = IF mode = "timer" THEN update_checkpoint(ckpt, ev) ELSE ckpt
        /\ bad' = IF ev.ok THEN bad ELSE bad \cup {ev.id}
        /\ blank' = IF mode = "trigger" /\ ev.ok /\ IsBlank(ev)
                    THEN blank \cup {ev.id} ELSE blank
    /\ UNCHANGED <<cfgVars, ociEnabled, endTime, drainVars, pcMain, summary, forced>>

\* mutant: the handler reports without the final flush
HubFinalNoFlush ==
    /\ mode \in {"trigger", "timer"}
    /\ pcMain = "loop"
    /\ pcMain' = "done"
    /\ summary' = TRUE
    /\ endTime' = now
    /\ UNCHANGED <<cfgVars, ociEnabled, buf, sent, failed, batches, processed,
                   errors, ckpt, drainVars, sinkLog, added, delivered, bad, blank,
                   forced, addRaised>>

\* buffer.flush() and the summary that follows it.
\* trigger main: lines 279-304; process_eventhub: lines 206-218, where the
\* flush runs in the finally block of client.receive, which has returned or
\* raised (err); a raise of receive goes on propagating after the summary.
HubFinal ==
    /\ mode \in {"trigger", "timer"}
    /\ pcMain = "loop"
    /\ mode = "trigger" => delivered >= 1
    /\ AllIdle
    /\ forced' = forced + 1
    /\ \E err \in (IF mode = "timer" THEN BOOLEAN ELSE {FALSE}) :
        /\ recvErr' = err
        /\ IF buf = <<>>
           THEN /\ summary' = TRUE
                /\ pcMain' = IF err THEN "raised" ELSE "done"
                /\ UNCHANGED <<buf, sent, failed, batches, sinkLog>>
           ELSE \E oracle \in Oracles(buf) :
                LET r == send_with_limits(buf, maxBytes, maxCount, oracle)
                IN  /\ sinkLog' = sinkLog \o r.calls
                    /\ IF r.raised
                       THEN /\ pcMain' = "raised"
                            /\ UNCHANGED <<buf, sent, failed, batches, summary>>
                       ELSE /\ buf' = <<>>
                            /\ sent' = sent + r.s
                            /\ failed' = failed + r.f
                            /\ batches' = batches + r.b
                            /\ summary' = TRUE
                            /\ pcMain' = IF err THEN "raised" ELSE "done"
    /\ UNCHANGED <<cfgVars, ociEnabled, now, lastEventTs, stopFlag, closed, wdWake, lock,
                   pc, cur, tmp, toSend, lastRecv, tripTime, polls, signals, processed, errors,
                   ckpt, added, delivered, bad, blank, addRaised>>
    /\ endTime' = now

\* process_eventhub.on_event run by the source for several partitions at a
\* time (concurrent): HubBuffer has no lock, so the steps of the callbacks
\* interleave.  Lines 173-179 and HubBuffer.add, line 140: body_as_str and
\* self.buf.append(payload); a decode that raises goes to the handler,
\* lines 186-191, which checkpoints the event.
HubAppend(p) ==
    /\ mode = "timer"
    /\ concurrent
    /\ pcMain = "loop"
    /\ pc[p] = "idle"
    /\ delivered < MaxDrainEvents
    /\ \E ev \in Events :
        IF ev.ok
        THEN /\ buf' = Append(buf, Payload(ev))
             /\ added' = Append(added, Payload(ev))
             /\ cur' = [cur EXCEPT ![p] = ev]
             /\ pc' = [pc EXCEPT ![p] = "test"]
             /\ UNCHANGED <<ckpt, bad, blank>>
        ELSE /\ ckpt' = update_checkpoint(ckpt, ev)
             /\ bad' = bad \cup {ev.id}
             /\ UNCHANGED blank
             /\ UNCHANGED <<buf, added, cur, pc>>
    /\ delivered' = delivered + 1
    /\ UNCHANGED <<cfgVars, ociEnabled, endTime, sent, failed, batches,
                   processed, errors, pcMain, summary, now, lastEventTs,
                   stopFlag, closed, wdWake, lock, tmp, toSend, recvErr,
                   sinkLog, forced, addRaised, lastRecv, tripTime, polls,
                   signals>>

\* HubBuffer._flush_if_needed, lines 143-150, called by add: the test of
\* the buffer as it is now, send_with_limits(self.buf, ...) and the
\* counters.  With nothing to flush the callback goes on to checkpoint the
\* event and ends (lines 180-185); so it does, through the handler (lines
\* 186-191), when the sink raises.
HubFlushIfNeeded(p) ==
    /\ mode = "timer"
    /\ pc[p] = "test"
    /\ IF buf = <<>> \/ ~NeedsFlush(buf, FALSE)
       THEN /\ ckpt' = update_checkpoint(ckpt, cur[p])
            /\ pc' = [pc EXCEPT ![p] = "idle"]
            /\ cur' = [cur EXCEPT ![p] = NoEvent]
            /\ UNCHANGED <<sent, failed, batches, sinkLog, addRaised>>
       ELSE \E oracle \in Oracles(buf) :
            LET r == send_with_limits(buf, maxBytes, maxCount, oracle) IN
            /\ sinkLog' = sinkLog \o r.calls
            /\ IF r.raised
               THEN /\ addRaised' = TRUE
                    /\ ckpt' = update_checkpoint(ckpt, cur[p])
                    /\ pc' = [pc EXCEPT ![p] = "idle"]
                    /\ cur' = [cur EXCEPT ![p] = NoEvent]
                    /\ UNCHANGED <<sent, failed, batches>>
               ELSE /\ sent' = sent + r.s
                    /\ failed' = failed + r.f
                    /\ batches' = batches + r.b
                    /\ pc' = [pc EXCEPT ![p] = "clear"]
                    /\ UNCHANGED <<ckpt, cur, addRaised>>
    /\ UNCHANGED <<cfgVars, ociEnabled, endTime, buf, processed, errors,
                   pcMain, summary, now, lastEventTs, stopFlag, closed,
                   wdWake, lock, tmp, toSend, recvErr, added, delivered, bad, blank,
                   forced, lastRecv, tripTime, polls, signals>>

\* HubBuffer._flush_if_needed, line 151: self.buf.clear(), whatever the
\* buffer holds by now; then the checkpoint, lines 180-185.
HubClear(p) ==
    /\ mode = "timer"
    /\ pc[p] = "clear"
    /\ buf' = <<>>
    /\ ckpt' = update_checkpoint(ckpt, cur[p])
    /\ pc' = [pc EXCEPT ![p] = "idle"]
    /\ cur' = [cur EXCEPT ![p] = NoEvent]
    /\ UNCHANGED <<cfgVars, ociEnabled, endTime, sent, failed, batches,
                   processed, errors, pcMain, summary, now, lastEventTs,
                   stopFlag, closed, wdWake, lock, tmp, toSend, recvErr,
                   sinkLog, added, delivered, bad, blank, forced, addRaised,
                   lastRecv, tripTime, polls, signals>>

\* ---------------------------------------------------------- EventHubDrainer
Terminated == pcMain \in {"done", "raised"}

\* on_event, lines 187-193 and 207-213: the SDK hands the next event to a
\* partition's callback.  body_as_str either yields the body, and then
\* _last_event_ts is set and messages_processed is loaded for `+= 1`, or it
\* raises, and then the handler checkpoints the event and the callback ends.
Deliver(p) ==
    /\ mode = "drain"
    /\ pcMain = "receive"
    /\ ~closed
    /\ pc[p] = "idle"
    /\ delivered < MaxDrainEvents
    /\ now <= MaxEventTime
    /\ \E ev \in Events :
        IF ev.ok
        THEN /\ cur' = [cur EXCEPT ![p] = ev]
             /\ lastEventTs' = now
             /\ tmp' = [tmp EXCEPT ![p] = processed]
             /\ pc' = [pc EXCEPT ![p] = "incr"]
             /\ UNCHANGED <<ckpt, bad, blank>>
        ELSE /\ ckpt' = update_checkpoint(ckpt, ev)
             /\ bad' = bad \cup {ev.id}
             /\ UNCHANGED blank
             /\ UNCHANGED <<cur, lastEventTs, tmp, pc>>
    /\ delivered' = delivered + 1
    /\ lastRecv' = now
    /\ UNCHANGED <<cfgVars, ociEnabled, endTime, buf, sent, failed, batches, processed, errors,
                   pcMain, summary, now, stopFlag, closed, wdWake, lock,
                   toSend, recvErr, sinkLog, added, forced, addRaised,
                   tripTime, polls, signals>>

\* on_event, line 193: the store of `self.messages_processed += 1`
StoreProcessed(p) ==
    /\ pc[p] = "incr"
    /\ processed' = tmp[p] + 1
    /\ pc' = [pc EXCEPT ![p] = "lock"]
    /\ UNCHANGED <<cfgVars, ociEnabled, endTime, buf, sent, failed, batches, errors, ckpt, pcMain,
                   summary, now, lastEventTs, stopFlag, closed, wdWake, lock,
                   cur, tmp, toSend, recvErr, sinkLog, added, delivered, bad, blank,
                   forced, addRaised, lastRecv, tripTime, polls, signals>>

\* on_event, lines 196-205 with _flush_if_needed(force=False), lines 151-160
\* and 174-178: under the lock, append, test the thresholds and, when one is
\* met, move the buffer to to_send and keep the lock while the flush is in
\* progress.  When no flush is due the lock is released, the event is
\* checkpointed and the callback ends.
Locked(p) ==
    /\ pc[p] = "lock"
    /\ lock = NoThread
    /\ LET b1 == Append(buf, Payload(cur[p])) IN
        /\ added' = Append(added, Payload(cur[p]))
        /\ IF ociEnabled /\ NeedsFlush(b1, FALSE)
           THEN /\ toSend' = b1
                /\ buf' = <<>>
                /\ lock' = p
                /\ pc' = [pc EXCEPT ![p] = "send"]
                /\ UNCHANGED <<ckpt, cur, tmp>>
           ELSE /\ buf' = b1
                /\ ckpt' = update_checkpoint(ckpt, cur[p])
                /\ pc' = [pc EXCEPT ![p] = "idle"]
                /\ cur' = [cur EXCEPT ![p] = NoEvent]
                /\ tmp' = [tmp EXCEPT ![p] = 0]
                /\ UNCHANGED <<toSend, lock>>
    /\ UNCHANGED <<cfgVars, ociEnabled, endTime, sent, failed, batches, processed, errors,
                   pcMain, summary, now, lastEventTs, stopFlag, closed, wdWake,
                   recvErr, sinkLog, delivered, bad, blank, forced, addRaised,
                   lastRecv, tripTime, polls, signals>>

\* _flush_if_needed, lines 179-185, and the rest of on_event, lines 201-213:
\* send_with_size_limit and the counters; the lock is released; the event is
\* checkpointed, on the normal path and in the handler that swallows a raise.
Send(p) ==
    /\ pc[p] = "send"
    /\ \E oracle \in Oracles(toSend) :
        LET r == send_with_limits(toSend, maxBytes, maxCount, oracle) IN
        /\ sinkLog' = sinkLog \o r.calls
        /\ IF r.raised
           THEN /\ addRaised' = TRUE
                /\ UNCHANGED <<sent, failed, batches>>
           ELSE /\ sent' = sent + r.s
                /\ failed' = failed + r.f
                /\ batches' = batches + r.b
                /\ UNCHANGED addRaised
    /\ toSend' = <<>>
    /\ lock' = NoThread
    /\ ckpt' = update_checkpoint(ckpt, cur[p])
    /\ pc' = [pc EXCEPT ![p] = "idle"]
    /\ cur' = [cur EXCEPT ![p] = NoEvent]
    /\ tmp' = [tmp EXCEPT ![p] = 0]
    /\ UNCHANGED <<cfgVars, ociEnabled, endTime, buf, processed, errors, pcMain, summary, now,
                   lastEventTs, stopFlag, closed, wdWake, recvErr,
                   added, delivered, bad, blank, forced, lastRecv, tripTime, polls, signals>>

\* mutant: the watchdog never finds the source inactive
InactiveNever(t, last, limit) == FALSE

\* _watchdog, line 231: the inactivity test
Inactive(t, last, limit) == t - last >= limit

\* mutant: the loop goes on after the trip
WatchdogRunningForEver == signals < 2

\* _watchdog, lines 229 and 238: `while not self._stop_flag`, and the break
\* that follows the trip
WatchdogRunning == ~stopFlag

\* mutant: a trip that comes when drain has ended runs the shutdown again
WatchdogReopens ==
    /\ mode = "drain"
    /\ pcMain \notin {"start", "failed"}
    /\ WatchdogRunning
    /\ now >= wdWake
    /\ polls' = polls + 1
    /\ stopFlag' = TRUE
    /\ closed' = TRUE
    /\ tripTime' = now
    /\ signals' = signals + 1
    /\ pcMain' = IF Terminated THEN "finally" ELSE pcMain
    /\ UNCHANGED <<cfgVars, ociEnabled, endTime, buf, sent, failed, batches,
                   processed, errors, ckpt, summary, now, lastEventTs, wdWake,
                   lock, pc, cur, tmp, toSend, recvErr, sinkLog, added,
                   delivered, bad, blank, forced, addRaised, lastRecv>>

\* _watchdog, lines 229-238: one round of the loop, taken when sleep(2) ends.
\* The thread is started by drain (lines 249-250) and, being a daemon
\* thread, goes on after drain has ended for as long as the process lives.
Watchdog ==
    /\ mode = "drain"
    /\ pcMain \notin {"start", "failed"}
    /\ WatchdogRunning
    /\ now >= wdWake
    /\ polls' = polls + 1
    /\ IF Inactive(now, lastEventTs, timeout)
       THEN /\ stopFlag' = TRUE
            /\ closed' = TRUE
            /\ tripTime' = now
            /\ signals' = signals + 1
            /\ UNCHANGED wdWake
       ELSE /\ wdWake' = now + PollInterval
            /\ UNCHANGED <<stopFlag, closed, tripTime, signals>>
    /\ UNCHANGED <<cfgVars, ociEnabled, endTime, buf, sent, failed, batches, processed, errors,
                   ckpt, pcMain, summary, now, lastEventTs, lock, pc, cur, tmp,
                   toSend, recvErr, sinkLog, added, delivered, bad, blank, forced,
                   addRaised, lastRecv>>

\* drain, lines 252-262: client.receive returns once the client is closed
\* and no callback is running
ReceiveReturn ==
    /\ mode = "drain"
    /\ pcMain = "receive"
    /\ closed
    /\ AllIdle
    /\ pcMain' = "finally"
    /\ UNCHANGED <<cfgVars, ociEnabled, endTime, buf, sent, failed, batches, processed, errors,
                   ckpt, summary, drainVars, sinkLog, added, delivered, bad, blank, forced,
                   addRaised>>

\* drain, lines 252-262: client.receive ends by raising
ReceiveError ==
    /\ mode = "drain"
    /\ pcMain = "receive"
    /\ ~closed
    /\ AllIdle
    /\ pcMain' = "finally"
    /\ recvErr' = TRUE
    /\ UNCHANGED <<cfgVars, ociEnabled, endTime, buf, sent, failed, batches, processed, errors,
                   ckpt, summary, now, lastEventTs, stopFlag, closed, wdWake,
                   lock, pc, cur, tmp, toSend, lastRecv, tripTime, polls, signals, sinkLog,
                   added, delivered, bad, blank, forced, addRaised>>

\* mutant: drain reports without the forced flush
DrainFinallyNoFlush ==
    /\ pcMain = "finally"
    /\ pcMain' = "summary"
    /\ UNCHANGED <<cfgVars, ociEnabled, endTime, buf, sent, failed, batches, processed, errors,
                   ckpt, summary, drainVars, sinkLog, added, delivered, bad, blank, forced,
                   addRaised>>

\* drain, lines 264-265 with _flush_if_needed(force=True), lines 151-164
DrainFinally ==
    /\ pcMain = "finally"
    /\ lock = NoThread
    /\ forced' = forced + 1
    /\ IF ociEnabled /\ buf # <<>>
       THEN /\ toSend' = buf
            /\ lock' = MainThread
            /\ pcMain' = "flushing"
       ELSE /\ pcMain' = "summary"
            /\ UNCHANGED <<toSend, lock>>
    /\ buf' = <<>>
    /\ UNCHANGED <<cfgVars, ociEnabled, endTime, sent, failed, batches, processed, errors, ckpt,
                   summary, now, lastEventTs, stopFlag, closed, wdWake, pc,
                   cur, tmp, recvErr, lastRecv, tripTime, polls, signals, sinkLog, added,
                   delivered, bad, blank, addRaised>>

\* _flush_if_needed, lines 165-172, in drain's finally: a raise leaves the
\* finally block, and drain, before the summary
DrainSend ==
    /\ pcMain = "flushing"
    /\ \E oracle \in Oracles(toSend) :
        LET r == send_with_limits(toSend, maxBytes, maxCount, oracle) IN
        /\ sinkLog' = sinkLog \o r.calls
        /\ IF r.raised
           THEN /\ pcMain' = "raised"
                /\ endTime' = now
                /\ UNCHANGED <<sent, failed, batches>>
           ELSE /\ sent' = sent + r.s
                /\ failed' = failed + r.f
                /\ batches' = batches + r.b
                /\ pcMain' = "summary"
                /\ UNCHANGED endTime
    /\ toSend' = <<>>
    /\ lock' = NoThread
    /\ UNCHANGED <<cfgVars, ociEnabled, buf, processed, errors, ckpt, summary, now,
                   lastEventTs, stopFlag, closed, wdWake, pc, cur, tmp,
                   recvErr, lastRecv, tripTime, polls, signals, added, delivered, bad, blank, forced,
                   addRaised>>

\* drain, lines 267-276: the summary; an exception of receive goes on
\* propagating after the finally block
DrainSummary ==
    /\ pcMain = "summary"
    /\ summary' = TRUE
    /\ pcMain' = IF recvErr THEN "raised" ELSE "done"
    /\ UNCHANGED <<cfgVars, ociEnabled, buf, sent, failed, batches, processed, errors,
                   ckpt, drainVars, sinkLog, added, delivered, bad, blank, forced,
                   addRaised>>
    /\ endTime' = now

\* A callback that has no step to take without time passing: it is not
\* running, or its put_messages call is in progress (the network call is the
\* one step of a callback that takes time), or it waits for the lock.
Waiting(p) ==
    \/ pc[p] = "idle"
    \/ pc[p] = "send"
    \/ pc[p] = "lock" /\ lock # NoThread

\* One second passes.  Program steps other than a callback's sink call take
\* no time: time advances only while receive is blocked, every callback is
\* waiting and the watchdog is asleep, or when drain has ended and the
\* watchdog is still asleep.
Tick ==
    /\ mode = "drain"
    /\ \/ /\ pcMain = "receive"
          /\ ~closed
          /\ \A p \in Partitions : Waiting(p)
       \/ /\ Terminated
          /\ ~stopFlag
    /\ stopFlag \/ now < wdWake
    /\ now < MaxTime
    /\ now' = now + 1
    /\ UNCHANGED <<cfgVars, ociEnabled, endTime, buf, sent, failed, batches, processed, errors,
                   ckpt, pcMain, summary, lastEventTs, stopFlag, closed,
                   wdWake, lock, pc, cur, tmp, toSend, recvErr, lastRecv,
                   tripTime, polls, signals, sinkLog, added, delivered, bad, blank,
                   forced, addRaised>>

OnEvent(p) ==
    Deliver(p) \/ StoreProcessed(p) \/ Locked(p) \/ Send(p)

Next ==
    \/ Startup
    \/ HubEvent
    \/ HubFinal
    \/ \E p \in Partitions : HubAppend(p)
    \/ \E p \in Partitions : HubFlushIfNeeded(p)
    \/ \E p \in Partitions : HubClear(p)
    \/ \E p \in Partitions : OnEvent(p)
    \/ Watchdog
    \/ ReceiveReturn
    \/ ReceiveError
    \/ DrainFinally
    \/ DrainSend
    \/ DrainSummary
    \/ Tick

Spec == Init /\ [][Next]_vars

\* A step of one of the program's threads, or of time.  The deliveries of
\* the source and the failure of receive are the environment's.
ProgramStep ==
    \/ Startup
    \/ Tick
    \/ Watchdog
    \/ ReceiveReturn
    \/ DrainFinally
    \/ DrainSend
    \/ DrainSummary
    \/ \E p \in Partitions : StoreProcessed(p) \/ Locked(p) \/ Send(p)
    \/ \E p \in Partitions : HubFlushIfNeeded(p) \/ HubClear(p)

\* The scheduler does not stop every thread and the clock for ever: while
\* some thread can run or time can pass, one of them eventually does.
Fairness == WF_vars(ProgramStep)

LiveSpec == Init /\ [][Next]_vars /\ Fairness

\* ------------------------------------------------------------------ claims
\* the payloads are added one at a time: no two adds overlap
OneAtATime == ~concurrent

RECURSIVE Flatten(_)
Flatten(log) ==
    IF log = <<>> THEN <<>> ELSE Head(log).batch \o Flatten(Tail(log))

NoRaise == \A i \in 1..Len(sinkLog) : sinkLog[i].res # "raise"

Range(seq) == {seq[i] : i \in 1..Len(seq)}

\* the forced flush has been called and has completed
FinalFlushDone == forced >= 1 /\ toSend = <<>> /\ pcMain # "flushing"

AllHanded == Range(added) \subseteq Range(Flatten(sinkLog))

LifecycleState ==
    IF pcMain \in {"start", "failed"} THEN "NotStarted"
    ELSE IF Terminated THEN "Stopped"
    ELSE IF pcMain = "receive" /\ ~closed THEN "Running"
    ELSE "Draining"

\* C1: with payloads added one at a time and a sink that never raises, the
\* batches handed to the sink, concatenated in dispatch order and followed
\* by what is still pending, are exactly the payloads added, in order; after
\* the forced flush nothing is pending, so the dispatched batches alone are
\* the input sequence.
C1_Concatenation ==
    (ociEnabled /\ NoRaise /\ OneAtATime) =>
        /\ Flatten(sinkLog) \o toSend \o buf = added
        /\ FinalFlushDone => Flatten(sinkLog) = added

C1_Witness ==
    /\ pcMain = "done"
    /\ ociEnabled /\ NoRaise
    /\ Len(added) >= 2
    /\ Len(sinkLog) >= 2
    /\ Flatten(sinkLog) = added

\* C2: no batch passed to the sink has more than maxCount items, and none has
\* an estimate above maxBytes unless it holds exactly one item.
C2_BatchLimits ==
    \A i \in 1..Len(sinkLog) :
        LET b == sinkLog[i].batch IN
        /\ Len(b) <= maxCount
        /\ estimate_batch_bytes(b) > maxBytes => Len(b) = 1

C2_Witness ==
    \E i, j \in 1..Len(sinkLog) :
        /\ Len(sinkLog[i].batch) = 1
        /\ estimate_batch_bytes(sinkLog[i].batch) > maxBytes
        /\ i # j
        /\ estimate_batch_bytes(sinkLog[j].batch) <= maxBytes

C4_Lifecycle ==
    [][(mode = "drain") =>
        /\ LifecycleState = "Running" =>
              LifecycleState' \in {"Running", "Draining"}
        /\ LifecycleState = "Draining" =>
              LifecycleState' \in {"Draining", "Stopped"}
        /\ LifecycleState = "Stopped" => LifecycleState' = "Stopped"
        /\ LifecycleState # "Running" => delivered' = delivered
        /\ forced' <= 1
        /\ LifecycleState' = "Stopped" => forced' = 1
        /\ summary' => (forced' = 1 /\ toSend' = <<>> /\ lock' = NoThread)
      ]_vars

C4_Witness ==
    /\ mode = "drain"
    /\ pcMain = "done"
    /\ tripTime >= 0
    /\ summary
    /\ forced = 1
    /\ Len(added) >= 1

\* C5: whenever a thread is at a point of the code that reads or writes the
\* pending buffer or the sent/failed/batches counters it holds the lock; at
\* most one flush is in progress; no payload is dispatched twice; without a
\* raise none is lost.
Accessing ==
    {p \in Partitions : pc[p] = "send"}
        \cup (IF pcMain = "flushing" THEN {MainThread} ELSE {})
        \cup (IF pcMain = "summary" /\ ociEnabled THEN {MainThread} ELSE {})

C5_LockDiscipline ==
    (mode = "drain") =>
        /\ \A t \in Accessing : lock = t
        /\ Cardinality({p \in Partitions : pc[p] = "send"}
                           \cup (IF pcMain = "flushing" THEN {MainThread} ELSE {})) <= 1
        /\ \A i, j \in 1..Len(Flatten(sinkLog)) :
              i # j => Flatten(sinkLog)[i] # Flatten(sinkLog)[j]
        /\ (ociEnabled /\ NoRaise) => Flatten(sinkLog) \o toSend \o buf = added

\* C6: a payload submitted to the sink by one call is never submitted again
\* by a later call; in particular nothing of a flush in which a call raised
\* is retried.
C6_NoResubmission ==
    \A i, j \in 1..Len(sinkLog) :
        i < j => Range(sinkLog[i].batch) \cap Range(sinkLog[j].batch) = {}

\* C7: when a sink call raised while an event was being added, the
\* invocation does not end in a normal return.
C7_FailureReported ==
    (addRaised /\ Terminated) => pcMain = "raised"

\* C8: the final summary of counters has been reported whenever the
\* controller has terminated.
C8_SummaryAlways ==
    Terminated => summary

\* C9: when the watchdog trips, at least inactivity_timeout seconds have
\* passed since the most recent event was received.
C9_NoEarlyTrip ==
    (tripTime >= 0 /\ lastRecv >= 0) => tripTime - lastRecv >= timeout

C11_TripOnce ==
    [][ /\ signals' <= 1
        /\ stopFlag' <=> (signals' = 1)
        /\ (polls' # polls /\ now - lastEventTs >= timeout) =>
               (signals' = signals + 1 /\ stopFlag' /\ closed')
        /\ (polls' # polls /\ now - lastEventTs < timeout) =>
               (signals' = signals /\ ~stopFlag' /\ closed' = closed)
        /\ signals' # signals => polls' = polls + 1
        /\ stopFlag =>
               (polls' = polls /\ signals' = signals /\ stopFlag' /\ closed')
      ]_vars

C11_Witness ==
    /\ mode = "drain"
    /\ pcMain = "done"
    /\ stopFlag /\ closed
    /\ signals = 1
    /\ polls >= 2

\* C12: the watchdog's trip changes nothing of the work in progress; a
\* callback that was appending or flushing when the trip came still appends
\* its event and completes its flush; the forced flush starts only when no
\* callback is running, the lock is free and no flush is in progress; and
\* once the client is closed no further event is taken from the source.
C12_TripDoesNotInterrupt ==
    [][ (mode = "drain") =>
        /\ signals' # signals =>
               /\ pc' = pc /\ cur' = cur /\ lock' = lock
               /\ buf' = buf /\ toSend' = toSend /\ sinkLog' = sinkLog
               /\ pcMain' = pcMain /\ added' = added
        /\ \A p \in Partitions :
               /\ (pc[p] = "lock" /\ pc'[p] # "lock") =>
                      added' = Append(added, Payload(cur[p]))
               /\ (pc[p] = "send" /\ pc'[p] # "send") =>
                      /\ Len(sinkLog') > Len(sinkLog)
                      /\ \/ sinkLog'[Len(sinkLog')].res = "raise"
                         \/ Flatten(sinkLog') = Flatten(sinkLog) \o toSend
        /\ forced' # forced =>
               /\ \A p \in Partitions : pc[p] = "idle"
               /\ lock = NoThread
               /\ toSend = <<>>
        /\ closed => delivered' = delivered
      ]_vars

C12_Witness ==
    /\ mode = "drain"
    /\ signals = 1
    /\ closed
    /\ \E p, q \in Partitions : pc[p] = "send" /\ pc[q] = "lock"

\* ids of the events whose payload was appended to the buffer
AddedIds == {added[i].id : i \in 1..Len(added)}

\* C13: in the trigger main, every delivered event that is not skipped for
\* its blank body is counted exactly once, in processed or in the error
\* count that the summary adds to failed; an event whose decoding failed is
\* not processed, is not in the buffer and is in the failed count; and every
\* other delivered event with a body, those after a failed one included, was
\* added to the buffer (and counted as processed unless a sink call raised).
C13_DecodeFailureIsolated ==
    (mode = "trigger") =>
        /\ processed + errors = delivered - Cardinality(blank)
        /\ Cardinality(bad) <= errors
        /\ total_failed >= failed + Cardinality(bad)
        /\ processed <= delivered - Cardinality(bad)
        /\ AddedIds = (1..delivered) \ (bad \cup blank)
        /\ NoRaise => (processed = Len(added) /\ errors = Cardinality(bad))

C13_Witness ==
    /\ mode = "trigger"
    /\ pcMain = "done" /\ summary
    /\ bad = {1}
    /\ delivered = 3
    /\ processed = 2
    /\ total_failed = 1
    /\ AddedIds = {2, 3}

\* number of entries the sink answered with an error
SinkFailures == Cardinality({i \in 1..Len(sinkLog) : sinkLog[i].res = "err"})

\* C14: in the drainer and in process_eventhub, an event whose decoding
\* failed is not appended to the buffer, is checkpointed, is not counted as
\* processed and is counted in the failed counter (which, when no sink call
\* raised, otherwise holds the entries the sink answered with an error);
\* the other delivered events are appended once their callback has run.
C14_DecodeFailureCounted ==
    (mode \in {"drain", "timer"}) =>
        /\ bad \cap AddedIds = {}
        /\ bad \subseteq ckpt
        /\ processed <= delivered - Cardinality(bad)
        /\ (Terminated /\ ~recvErr) => AddedIds = (1..delivered) \ bad
        /\ NoRaise => failed = SinkFailures + Cardinality(bad)

NoDuplicates(seq) == \A i, j \in 1..Len(seq) : i # j => seq[i] # seq[j]

\* C15: when payloads are added one at a time and no sink call raises, the
\* failed counter is the number of entries the sink answered with an error
\* and the sent counter the number of the others; the batches after one with a failed entry, in the same
\* flush and in later ones, are dispatched all the same, in order; what was
\* dispatched is no longer in the buffer; and no payload, failed or not, is
\* submitted twice.
C15_ItemFailures ==
    (ociEnabled /\ NoRaise /\ OneAtATime) =>
        /\ failed = SinkFailures
        /\ sent = Len(Flatten(sinkLog)) - SinkFailures
        /\ NoDuplicates(Flatten(sinkLog) \o toSend \o buf)
        /\ Flatten(sinkLog) \o toSend \o buf = added
        /\ (Terminated /\ summary) => (buf = <<>> /\ Flatten(sinkLog) = added)

C15_Witness ==
    /\ pcMain = "done"
    /\ NoRaise
    /\ maxCount = 2 /\ maxBytes = 57
    /\ Len(sinkLog) = 3
    /\ sinkLog[1].res = "err"
    /\ sinkLog[2].res = "ok"
    /\ sinkLog[3].res = "err"
    /\ failed = 2
    /\ sent = 1
    /\ buf = <<>>

\* C16: an add whose non-forced flush finds the buffer below both
\* thresholds leaves the payload in the buffer and changes nothing else (no
\* sink call, counters unchanged); and a sink call made by a non-forced
\* flush is made for a buffer that has reached maxCount items or an
\* estimate of maxBytes.
C16_NonForcedNoOp ==
    [][ /\ added' # added =>
            LET b1 == Append(buf, added'[Len(added')]) IN
            (Len(b1) < maxCount /\ estimate_batch_bytes(b1) < maxBytes) =>
                /\ buf' = b1
                /\ toSend' = toSend
                /\ sinkLog' = sinkLog
                /\ sent' = sent /\ failed' = failed /\ batches' = batches
        /\ (sinkLog' # sinkLog /\ forced' = forced /\ pcMain # "flushing") =>
            LET content == IF mode = "drain" THEN toSend
                           ELSE Append(buf, added'[Len(added')])
            IN  \/ Len(content) >= maxCount
                \/ estimate_batch_bytes(content) >= maxBytes
      ]_vars

C16_Witness ==
    /\ forced = 0
    /\ ociEnabled /\ NoRaise
    /\ sinkLog # <<>>
    /\ toSend = <<>>
    /\ buf # <<>>
    /\ Len(buf) < maxCount
    /\ estimate_batch_bytes(buf) < maxBytes

\* C17: once flush(force=true) has been called the buffer is empty.
C17_ForcedFlushEmpties ==
    forced >= 1 => buf = <<>>

\* C18: with payloads added one at a time, when the byte limit does not
\* bind (the estimate of everything added is below maxBytes) and no sink call raises, then before the forced flush
\* the automatic flushes are exactly those of the adds that brought the
\* buffer to maxCount items: the k-th sink call holds the k-th run of
\* maxCount payloads in order, one batch per flush, and the payloads added
\* since the last full run are pending.
C18_CountThreshold ==
    (/\ ociEnabled /\ NoRaise /\ OneAtATime
     /\ estimate_batch_bytes(added) < maxBytes
     /\ forced = 0 /\ toSend = <<>>) =>
        /\ Len(sinkLog) = Len(added) \div maxCount
        /\ batches = Len(sinkLog)
        /\ \A k \in 1..Len(sinkLog) :
              sinkLog[k].batch =
                  SubSeq(added, (k - 1) * maxCount + 1, k * maxCount)
        /\ buf = SubSeq(added, Len(sinkLog) * maxCount + 1, Len(added))

C18_Witness ==
    /\ mode = "trigger"
    /\ maxCount = 2
    /\ NoRaise
    /\ estimate_batch_bytes(added) < maxBytes
    /\ forced = 0
    /\ Len(added) = 3
    /\ Len(sinkLog) = 1
    /\ sinkLog[1].batch = <<added[1], added[2]>>
    /\ buf = <<added[3]>>

\* the payloads added are of one size, and maxBytes is above the estimate of
\* one of them and below the estimate of two
OneFitsTwoDoNot ==
    /\ added # <<>>
    /\ \A i \in 1..Len(added) : added[i].n = added[1].n
    /\ estimate_batch_bytes(<<added[1]>>) < maxBytes
    /\ maxBytes < estimate_batch_bytes(<<added[1], added[1]>>)

\* C19: with payloads added one at a time, when maxBytes is above the
\* estimate of one item and below that of two, and no sink call raises, every sink call carries exactly one item,
\* and after the forced flush there have been as many sink calls (and
\* counted batches) as items added.
C19_ByteThreshold ==
    (ociEnabled /\ NoRaise /\ OneAtATime /\ OneFitsTwoDoNot) =>
        /\ \A k \in 1..Len(sinkLog) : Len(sinkLog[k].batch) = 1
        /\ FinalFlushDone =>
              /\ Len(sinkLog) = Len(added)
              /\ batches = Len(added)
              /\ Flatten(sinkLog) = added

C19_Witness ==
    /\ mode = "trigger"
    /\ pcMain = "done"
    /\ maxCount = 2
    /\ NoRaise /\ OneFitsTwoDoNot
    /\ Len(added) = 3
    /\ Len(sinkLog) = 3
    /\ \A k \in 1..3 : sinkLog[k].batch = <<added[k]>>

\* the sink calls whose batch holds payload x
CallsWith(x) == {k \in 1..Len(sinkLog) : x \in Range(sinkLog[k].batch)}

\* C20: when payloads are added one at a time and no sink call raises, a
\* payload whose own estimate is above maxBytes is, wherever it stands, either still pending or dispatched; it
\* is dispatched at most once, unchanged, in a batch that holds nothing
\* else; and after the forced flush it has been dispatched exactly once.
C20_OversizedSingleton ==
    (ociEnabled /\ NoRaise /\ OneAtATime) =>
        \A i \in 1..Len(added) :
            estimate_batch_bytes(<<added[i]>>) > maxBytes =>
                /\ added[i] \in Range(Flatten(sinkLog) \o toSend \o buf)
                /\ Cardinality(CallsWith(added[i])) <= 1
                /\ \A k \in CallsWith(added[i]) :
                      sinkLog[k].batch = <<added[i]>>
                /\ FinalFlushDone => Cardinality(CallsWith(added[i])) = 1

C20_Witness ==
    /\ pcMain = "done"
    /\ NoRaise
    /\ maxCount = 2
    /\ Len(added) = 3
    /\ estimate_batch_bytes(<<added[1]>>) <= maxBytes
    /\ estimate_batch_bytes(<<added[2]>>) > maxBytes
    /\ estimate_batch_bytes(<<added[3]>>) <= maxBytes
    /\ \E k \in 1..Len(sinkLog) : sinkLog[k].batch = <<added[2]>>

\* C21: in log-only mode no sink call is ever made, the buffer never stays
\* at or above a threshold (the flush of the add that reached it has
\* emptied it), and it is empty once the forced flush has been called.
C21_LogOnlyDiscards ==
    (mode = "drain" /\ ~ociEnabled) =>
        /\ sinkLog = <<>>
        /\ sent = 0 /\ failed = 0 /\ batches = 0
        /\ forced >= 1 => buf = <<>>
        /\ Len(buf) < maxCount
        /\ estimate_batch_bytes(buf) < maxBytes

\* C22: in the trigger main with its settings present, the events are taken
\* one at a time in the delivered order; the forced flush is called exactly
\* once, as the last thing before the handler ends, after at least one
\* event, and no event is processed after it; and when the handler returns
\* normally the buffer is empty.
C22_BoundedBatch ==
    [][ (mode = "trigger" /\ config = "ok") =>
        /\ delivered' \in {delivered, delivered + 1}
        /\ added' # added =>
               /\ Len(added') = Len(added) + 1
               /\ added'[Len(added')].id = delivered'
               /\ delivered' = delivered + 1
        /\ forced' <= 1
        /\ forced' # forced => (delivered >= 1 /\ Terminated')
        /\ forced >= 1 => (delivered' = delivered /\ added' = added)
        /\ Terminated' => forced' = 1
        /\ pcMain' = "done" => buf' = <<>>
      ]_vars

C22_Witness ==
    /\ mode = "trigger"
    /\ config = "ok"
    /\ pcMain = "done"
    /\ forced = 1
    /\ delivered = 3
    /\ Len(added) = 3
    /\ Len(sinkLog) >= 2
    /\ buf = <<>>

\* C23: when the message endpoint or the stream id is missing, the trigger
\* main and the timer main end at startup: no event is ever decoded or
\* appended to the buffer, no sink call and no flush is ever made.
C23_ConfigFailsAtStartup ==
    (mode \in {"trigger", "timer"} /\ config = "noSink") =>
        /\ pcMain \in {"start", "failed"}
        /\ delivered = 0 /\ bad = {}
        /\ added = <<>> /\ buf = <<>>
        /\ sinkLog = <<>>
        /\ forced = 0

C23_Witness ==
    /\ mode = "trigger"
    /\ config = "noSink"
    /\ pcMain = "failed"
    /\ delivered = 0
    /\ sinkLog = <<>>

\* C24: once drain has ended (Stopped), nothing changes the controller any
\* more: a trip of the watchdog that comes afterwards sets the flag and
\* closes the client, and causes no forced flush, no sink call, no change of
\* the buffer or of a counter, and no transition out of Stopped; and the
\* watchdog signals at most once.
C24_StoppedIsTerminal ==
    [][ (mode = "drain" /\ Terminated) =>
        /\ pcMain' = pcMain
        /\ forced' = forced
        /\ sinkLog' = sinkLog
        /\ buf' = buf /\ toSend' = toSend /\ added' = added
        /\ sent' = sent /\ failed' = failed /\ batches' = batches
        /\ processed' = processed
        /\ summary' = summary
        /\ delivered' = delivered
        /\ signals' <= 1
      ]_vars

C24_Witness ==
    /\ mode = "drain"
    /\ Terminated
    /\ forced = 1
    /\ signals = 1 /\ stopFlag /\ closed
    /\ endTime >= 0
    /\ tripTime > endTime

\* C25: when drain has ended, messages_processed is the number of events
\* that were decoded and appended to the buffer.
C25_NoLostUpdate ==
    (mode = "drain" /\ Terminated) => processed = Len(added)

\* ids of the events a callback is still working on
InFlight == {cur[p].id : p \in {q \in Partitions : pc[q] # "idle"}}

\* C26: in the drainer and in process_eventhub, update_checkpoint has been
\* called only for events that were appended to the buffer or whose decoding
\* failed, and it has been called for every delivered event whose callback
\* has ended.
C26_CheckpointAfterHandOff ==
    (mode \in {"drain", "timer"}) =>
        /\ ckpt \subseteq (AddedIds \cup bad)
        /\ ((1..delivered) \ InFlight) \subseteq ckpt

C26_Witness ==
    /\ mode = "drain"
    /\ bad = {1}
    /\ AddedIds = {2}
    /\ ckpt = {1, 2}
    /\ InFlight = {}

\* C27: the drain command never exits with code 0 when a required setting
\* is missing, be it of the source or, with the sink wanted, of the sink.
C27_ExitCode ==
    (mode = "drain" /\ config # "ok") => ExitCode # 0

\* C28: while no sink call raises, the batch count accumulated from
\* send_with_limits / send_with_size_limit is the number of non-empty
\* batches written to the sink, also when the first payload alone exceeds
\* maxBytes.
C28_BatchCount ==
    (ociEnabled /\ NoRaise) => batches = Len(sinkLog)

\* C29: in process_eventhub, once the source delivers nothing more (so it
\* stays silent for inactivity_timeout and longer), the controller
\* eventually leaves receive, runs the final flush and returns.
C29_TimerLeavesReceive ==
    (mode = "timer" /\ pcMain = "loop" /\ delivered = MaxEvents)
        ~> (pcMain \in {"done", "raised"} /\ forced = 1)

\* C30: in process_eventhub with on_event callbacks running concurrently,
\* and a sink that never raises, no payload is dispatched twice and, once
\* the final flush has run, every payload added has been dispatched.
C30_HubBufferSerialized ==
    (mode = "timer" /\ concurrent /\ NoRaise) =>
        /\ NoDuplicates(Flatten(sinkLog))
        /\ pcMain = "done" => Range(added) \subseteq Range(Flatten(sinkLog))

\* ids of the payloads handed to the sink so far
HandedIds == {x.id : x \in Range(Flatten(sinkLog))}

\* C31: the checkpoint does not wait for the delivery: in the drainer and in
\* process_eventhub, every payload that is pending in the buffer once its
\* callback has ended belongs to an event whose position was checkpointed,
\* handed to the sink or not.
C31_CheckpointBeforeDelivery ==
    (mode \in {"drain", "timer"}) =>
        \A i \in 1..Len(buf) : buf[i].id \notin InFlight => buf[i].id \in ckpt

C31_Witness ==
    /\ mode = "drain"
    /\ ociEnabled
    /\ pcMain = "receive"
    /\ InFlight = {}
    /\ buf # <<>>
    /\ \A i \in 1..Len(buf) : buf[i].id \in ckpt /\ buf[i].id \notin HandedIds

\* the sink calls a step adds to the log: those of one send_with_limits call
NewCalls == SubSeq(sinkLog', Len(sinkLog) + 1, Len(sinkLog'))

\* seq holds part as a run of consecutive items
HasSlice(seq, part) ==
    \E i \in 1..(Len(seq) + 1) :
        /\ i + Len(part) - 1 <= Len(seq)
        /\ SubSeq(seq, i, i + Len(part) - 1) = part

\* C32: the splitting is greedy and left to right: of the batches that one
\* send_with_limits call hands to the sink, none is empty, each but the
\* last is maximal (with the first payload of the batch that follows it, it
\* would hold more than maxCount items or its estimate would be above
\* maxBytes), and, for payloads added one at a time, the batches in a row
\* are a run of consecutive payloads of the input.
C32_GreedyPacking ==
    [][/\ \A k \in 1..Len(NewCalls) : NewCalls[k].batch # <<>>
       /\ \A k \in 1..(Len(NewCalls) - 1) :
             LET c == Append(NewCalls[k].batch, NewCalls[k + 1].batch[1])
             IN  Len(c) > maxCount \/ estimate_batch_bytes(c) > maxBytes
       /\ OneAtATime => HasSlice(added', Flatten(NewCalls))]_vars

C32_Witness ==
    /\ mode = "trigger"
    /\ maxCount = 2 /\ maxBytes = 57
    /\ forced = 0 /\ NoRaise
    /\ Len(added) = 2 /\ added[1].n = 1 /\ added[2].n = 1
    /\ Len(sinkLog) = 2
    /\ sinkLog[1].batch = <<added[1]>>
    /\ sinkLog[2].batch = <<added[2]>>

\* b is below both thresholds of the automatic flush
BelowThresholds(b) ==
    Len(b) < maxCount /\ estimate_batch_bytes(b) < maxBytes

\* C33: with a sink and payloads added one at a time, after every add in
\* which no sink call raises the pending buffer is empty or holds fewer than
\* maxCount items with an estimate below maxBytes; so, as long as no sink
\* call has raised, the buffer never holds maxCount items or more.
C33_BufferBelowThresholds ==
    [][(ociEnabled /\ OneAtATime) =>
        /\ (/\ added' # added
            /\ \A k \in 1..Len(NewCalls) : NewCalls[k].res # "raise") =>
                  (buf' = <<>> \/ BelowThresholds(buf'))
        /\ NoRaise' => Len(buf') < maxCount]_vars

C33_Witness ==
    /\ mode = "trigger"
    /\ maxCount = 2
    /\ forced = 0
    /\ addRaised
    /\ Len(added) = 3
    /\ sinkLog[Len(sinkLog)].res # "raise"
    /\ buf = <<>>

\* C34: when the trigger main has ended, every delivered event is counted
\* once, as processed, as an error or as skipped for its blank body, and
\* the reported sent + failed is processed + errors, so that no event is
\* counted both as failed and as sent.
C34_CounterConservation ==
    (mode = "trigger" /\ pcMain = "done") =>
        /\ processed + errors + Cardinality(blank) = delivered
        /\ sent + total_failed = processed + errors

\* the sink's answer to its i-th call: that of the run recorded in the log
\* ("ok" past its end)
AnswerAt(i) == IF i <= Len(sinkLog) THEN sinkLog[i].res ELSE "ok"

\* EventHubDrainer._flush_if_needed with a sender, lines 159-185, on the
\* accumulator st = [buf, calls, s, f, b]: the buffer is copied to to_send
\* and cleared, then sent; a raise leaves the counters as they were
DrainerFlush(st, force) ==
    IF st.buf = <<>> \/ ~NeedsFlush(st.buf, force) THEN st
    ELSE LET base == Len(st.calls)
             r == send_with_limits(st.buf, maxBytes, maxCount,
                      [k \in 1..Len(st.buf) |-> AnswerAt(base + k)])
         IN  [buf |-> <<>>,
              calls |-> st.calls \o r.calls,
              s |-> IF r.raised THEN st.s ELSE st.s + r.s,
              f |-> IF r.raised THEN st.f ELSE st.f + r.f,
              b |-> IF r.raised THEN st.b ELSE st.b + r.b]

\* EventHubDrainer fed the payloads one at a time (on_event, lines 196-199)
\* and then flushed with force (drain, line 265)
RECURSIVE DrainerRun(_, _)
DrainerRun(payloads, st) ==
    IF payloads = <<>> THEN DrainerFlush(st, TRUE)
    ELSE DrainerRun(Tail(payloads),
                    DrainerFlush([st EXCEPT !.buf = Append(@, Head(payloads))],
                                 FALSE))

\* C35: HubBuffer and EventHubDrainer are equivalent: when the trigger main
\* has ended, EventHubDrainer, fed the same payloads with the same limits
\* and the same answers of the sink, a raise included, and flushed with
\* force, has made the same sink calls with the same batches and ends with
\* the same buffer and the same sent, failed and batches counters.
C35_AccumulatorsEquivalent ==
    (mode = "trigger" /\ Terminated) =>
        LET d == DrainerRun(added, [buf |-> <<>>, calls |-> <<>>, s |-> 0,
                                    f |-> 0, b |-> 0])
        IN  /\ d.calls = sinkLog
            /\ d.buf = buf
            /\ d.s = sent /\ d.f = failed /\ d.b = batches

\* send_batch(b) alone, with the sink answering o
SendBatchOf(b, o) ==
    Dispatch([batch |-> b, s |-> 0, f |-> 0, b |-> 0, calls |-> <<>>,
              raised |-> FALSE], [k \in {1} |-> o])

\* C36: send_batch on a non-empty batch (here: whatever the buffer holds)
\* makes one sink call with all the items in order and returns sent + failed
\* equal to the number of entries the sink returned, failed being those with
\* an error; on an empty batch it makes no call and returns (0, 0).  So no
\* sink call has an empty batch and, while no call raises, sent + failed is
\* the number of items handed to the sink.
C36_SendBatch ==
    /\ \A o \in Outcomes \ {"raise"} :
          LET r == SendBatchOf(buf, o) IN
          IF buf = <<>>
          THEN r.calls = <<>> /\ r.s = 0 /\ r.f = 0
          ELSE /\ r.calls = <<[batch |-> buf, res |-> o]>>
               /\ r.s + r.f = Len(Entries(buf, o))
               /\ r.f = CountEntries(Entries(buf, o), TRUE)
    /\ \A k \in 1..Len(sinkLog) : sinkLog[k].batch # <<>>
    /\ (ociEnabled /\ NoRaise) => sent + failed = Len(Flatten(sinkLog))

C36_Witness ==
    /\ mode = "trigger"
    /\ pcMain = "done"
    /\ NoRaise
    /\ SinkFailures = 1
    /\ sent = 2 /\ failed = 1
    /\ batches > Len(sinkLog)
====
